---- MODULE Spec2Model ----
(***************************************************************************)
(* Job portal accounts service: the OTP / verification-token / account     *)
(* state machine of accounts/services.py, accounts/views.py and            *)
(* accounts/serializers.py.                                                *)
(*                                                                         *)
(* Every HTTP request is handled by a worker (Procs).  A handler is cut    *)
(* into steps at its accesses to the shared stores (the Django cache and   *)
(* the user table); everything between two accesses is local to the        *)
(* worker and belongs to the step of the access before it.  Time is a      *)
(* clock in seconds that advances by Tick while no request is in flight    *)
(* and an entry of the cache is live: the handlers read the clock only     *)
(* through the expiry of cache entries, so time that passes over a cache   *)
(* without live entries changes nothing a request can observe.             *)
(***************************************************************************)
EXTENDS Integers, Sequences, FiniteSets, TLC

\* ------------------------------------------------------------- bounds
Tick == 250            \* seconds the clock advances in one step
MaxTime == 760         \* the clock stops here
MaxRequests == 2       \* request_otp calls in one behaviour of SpecOtp and SpecConc
MaxFlows == 1          \* request_otp calls in one behaviour of Spec
MaxTokens == 2         \* uuid4 values drawn in one behaviour
MaxAttempts == 3       \* wrong codes in a row that are counted

Procs == {1, 2}
Emails == {"a@x.com", "b@x.com"}
Purposes == {"register", "reset"}
Codes == {"000000", "123456"}     \* values of generate_otp()
OneCode == {"123456"}
OneEmail == {"a@x.com"}
Passwords == {"secret1", "secret2"}

\* ------------------------------------------------- program constants
OTP_EXPIRE_SECONDS == 300
VERIFIED_EXPIRE_SECONDS == 600
PASSWORD_MIN_LENGTH == 6

VARIABLES
    now,      \* time.time(), in seconds
    cache,    \* django.core.cache.cache: key -> [value, expiry]
    users,    \* the User table: email -> row
    pc,       \* per worker: "idle" or the next step of its handler
    loc,      \* per worker: the request data and locals of its handler
    resp,     \* the HTTP response the step just taken sent, if any
    nextTok,  \* number of uuid4 values drawn so far
    issued,   \* history: per OTP key, the last request_otp that wrote it (raced: while
              \* another request_otp for the key was in flight; prevCode, prevAt: the
              \* code it replaced and the time of the request before it)
    wins,     \* history: per request_otp call, the verify_otp calls that returned True
    minted    \* history: per verification token, its VerifyOTPView.post

vars == <<now, cache, users, pc, loc, resp, nextTok, issued, wins, minted>>

\* Python's None, and the truth value of a str-or-None
None == "<None>"
Truthy(v) == v # None /\ v # ""

\* ------------------------------------------------------------ the cache
\* cache.add(key, value, timeout): a live entry is kept as it is
cache_add(c, key, value, timeout) ==
    IF key \in DOMAIN c /\ c[key].expiry > now
    THEN c
    ELSE [k \in DOMAIN c \cup {key} |->
            IF k = key THEN [value |-> value, expiry |-> now + timeout] ELSE c[k]]

\* a set that replaces the value of a live entry and keeps its expiry
cache_set_value(c, key, value, timeout) ==
    [k \in DOMAIN c \cup {key} |->
        IF k # key THEN c[k]
        ELSE IF key \in DOMAIN c /\ c[key].expiry > now
        THEN [value |-> value, expiry |-> c[key].expiry]
        ELSE [value |-> value, expiry |-> now + timeout]]

\* cache.set(key, value, timeout): the entry is replaced, value and expiry
cache_set(c, key, value, timeout) ==
    [k \in DOMAIN c \cup {key} |->
        IF k = key THEN [value |-> value, expiry |-> now + timeout] ELSE c[k]]

\* a get that returns the value of an entry whatever its expiry
cache_peek(c, key) == IF key \in DOMAIN c THEN c[key].value ELSE None

\* cache.get(key): None when the key is missing or its timeout has passed
cache_get(c, key) ==
    IF key \in DOMAIN c /\ c[key].expiry > now THEN c[key].value ELSE None

\* a delete that removes nothing
cache_keep(c, key) == c

\* cache.delete(key)
cache_delete(c, key) == [k \in DOMAIN c \ {key} |-> c[k]]

\* an OTP key that leaves out the purpose
otp_key_of_email(purpose, email) == "otp:" \o email

\* f"otp:{purpose}:{email}"
otp_key(purpose, email) == "otp:" \o purpose \o ":" \o email

\* f"verified:{purpose}:{token}" of VerifyOTPView.post
verified_key(purpose, token) == "verified:" \o purpose \o ":" \o token

\* a signup key in the namespace of password reset
reset_namespace_key(token) == "verified:reset:" \o token

\* f"verified:register:{token}" of SignupSerializer.validate
signup_key(token) == "verified:register:" \o token

\* a reset key in the namespace of registration
register_namespace_key(token) == "verified:register:" \o token

\* f"verified:reset:{token}" of ResetPasswordSerializer.validate
reset_key(token) == "verified:reset:" \o token

\* str(uuid.uuid4()): the n-th value drawn, distinct from all others
uuid4(n) == "tok" \o ToString(n)

Tokens == {uuid4(n) : n \in 1..MaxTokens}

\* ------------------------------------------------- requests, responses
\* the data of a request; issue is history: the request_otp call whose OTP
\* a verify_otp call has read
Request(op, email, purpose, otp, token, password) ==
    [op |-> op, email |-> email, purpose |-> purpose, otp |-> otp, token |-> token,
     password |-> password, issue |-> 0]

NoRequest == Request("", "", "", "", "", "")

\* the request answered (with its password when it succeeded), the status
\* code, the message, the fields a ValidationError names, the verification
\* token, the user the access/refresh pair is issued for and the claims of
\* the pair; history: mail,
\* what became of the e-mail the request sent ("sent", "failed" or "" for
\* none), and attempt, the wrong codes presented in a row up to this one
Response(req, status, detail, errors, token, user) ==
    [req |-> [req EXCEPT !.password = IF status < 400 THEN @ ELSE "", !.issue = 0],
     status |-> status, detail |-> detail, errors |-> errors, token |-> token,
     user |-> user, claims |-> {}, mail |-> "", attempt |-> 0]

\* the claims RefreshToken.for_user puts in a token besides token_type, exp,
\* iat and jti: USER_ID_CLAIM of SIMPLE_JWT
for_user(user) == {"user_id"}

\* CustomTokenObtainPairSerializer.get_token
get_token(user) == for_user(user) \cup {"email", "first_name", "last_name", "role"}

\* the response r with an access/refresh pair that carries the claims
Pair(r, token_claims) == [r EXCEPT !.claims = token_claims]

\* the response r of a request whose e-mail was delivered, or was not
Mailed(r, delivered) == [r EXCEPT !.mail = IF delivered THEN "sent" ELSE "failed"]

NoResponse == Response(NoRequest, 0, "", {}, "", "")

\* a worker takes a new request: worker 2 only while worker 1 is busy
\* (the two workers are interchangeable)
CanStart(p) == pc[p] = "idle" /\ (p = 2 => pc[1] # "idle")

\* the handler goes on to its next access of a shared store
Goto(p, label, req) ==
    /\ pc' = [pc EXCEPT ![p] = label]
    /\ loc' = [loc EXCEPT ![p] = req]
    /\ resp' = NoResponse

Return(p, r) ==
    /\ pc' = [pc EXCEPT ![p] = "idle"]
    /\ loc' = [loc EXCEPT ![p] = NoRequest]
    /\ resp' = r

\* ---------------------------------------------------------- request_otp
\* a request_otp that stores and sends nothing for an email without a user
RequestOTPKnown(p, email, purpose, otp) ==
    /\ CanStart(p)
    /\ IF email \in DOMAIN users
       THEN /\ cache' = cache_set(cache, otp_key(purpose, email), otp, OTP_EXPIRE_SECONDS)
            /\ Goto(p, "send_mail", Request("request_otp", email, purpose, otp, "", ""))
       ELSE /\ cache' = cache
            /\ Return(p, Response(Request("request_otp", email, purpose, otp, "", ""),
                                  400, "No user found with this email.", {"email"}, "", ""))
    /\ wins' = Append(wins, 0)
    /\ UNCHANGED <<now, users, nextTok, issued, minted>>

\* RequestOTPView.post up to and including cache.set of send_otp_email;
\* otp is the value generate_otp() returned
RequestOTP(p, email, purpose, otp) ==
    /\ CanStart(p)
    /\ cache' = cache_set(cache, otp_key(purpose, email), otp, OTP_EXPIRE_SECONDS)
    /\ Goto(p, "send_mail", Request("request_otp", email, purpose, otp, "", ""))
    /\ wins' = Append(wins, 0)
    /\ issued' = [k \in DOMAIN issued \cup {otp_key(purpose, email)} |->
                    IF k = otp_key(purpose, email)
                    THEN [code |-> otp, at |-> now, id |-> Len(wins) + 1, deleted |-> FALSE,
                          raced |-> \E q \in Procs \ {p} :
                                        /\ pc[q] = "send_mail"
                                        /\ loc[q].email = email
                                        /\ loc[q].purpose = purpose,
                          prevCode |-> cache_get(cache, k),
                          prevAt |-> IF k \in DOMAIN issued THEN issued[k].at ELSE 0]
                    ELSE issued[k]]
    /\ UNCHANGED <<now, users, nextTok, minted>>

\* a send step that takes the OTP out of the cache when send_mail failed
SendMailRollback(p, delivered) ==
    /\ pc[p] = "send_mail"
    /\ Return(p, Mailed(IF delivered
                        THEN Response(loc[p], 200, "OTP has been sent to " \o loc[p].email
                                              \o ". It is valid for 5 minutes.", {}, "", "")
                        ELSE Response(loc[p], 500, "Server Error", {}, "", ""),
                        delivered))
    /\ cache' = IF delivered THEN cache
                ELSE cache_delete(cache, otp_key(loc[p].purpose, loc[p].email))
    /\ UNCHANGED <<now, users, nextTok, issued, wins, minted>>

\* a send step that logs a failed send_mail and goes on to the success
\* response
SendMailSwallow(p, delivered) ==
    /\ pc[p] = "send_mail"
    /\ Return(p, Mailed(Response(loc[p], 200, "OTP has been sent to " \o loc[p].email
                                           \o ". It is valid for 5 minutes.", {}, "", ""),
                        delivered))
    /\ UNCHANGED <<now, cache, users, nextTok, issued, wins, minted>>

\* send_mail of send_otp_email and the response; an exception of send_mail
\* is caught nowhere and ends the request with a 500
SendMail(p, delivered) ==
    /\ pc[p] = "send_mail"
    /\ Return(p, Mailed(IF delivered
                        THEN Response(loc[p], 200, "OTP has been sent to " \o loc[p].email
                                              \o ". It is valid for 5 minutes.", {}, "", "")
                        ELSE Response(loc[p], 500, "Server Error", {}, "", ""),
                        delivered))
    /\ UNCHANGED <<now, cache, users, nextTok, issued, wins, minted>>

\* ----------------------------------------------------------- verify_otp
\* the test of verify_otp on the value cache.get returned
otp_matches(cached_otp, otp) == Truthy(cached_otp) /\ cached_otp = otp

\* the throttles of a view: DEFAULT_THROTTLE_CLASSES of REST_FRAMEWORK, which
\* settings.py leaves at its default; throttle_scope alone selects none
throttle_classes == {}

\* APIView.check_throttles: every throttle of the view allows the request
check_throttles(scope, attempts) == \A t \in throttle_classes : attempts < t[scope]

\* history: the wrong codes presented in a row for one pending OTP, this
\* call included (0 when this call presents no wrong code to a pending OTP)
Attempt(email, purpose, otp) ==
    LET cached_otp == cache_get(cache, otp_key(purpose, email))
        before == IF /\ resp.req.op = "verify_otp"
                     /\ resp.req.email = email
                     /\ resp.req.purpose = purpose
                  THEN resp.attempt ELSE 0
    IN  IF Truthy(cached_otp) /\ cached_otp # otp
        THEN IF before < MaxAttempts THEN before + 1 ELSE MaxAttempts
        ELSE 0

\* a verify_otp that answers 404 when no OTP is stored for the key
VerifyOTPGetTelling(p, email, purpose, otp) ==
    /\ CanStart(p)
    /\ nextTok + Cardinality({q \in Procs : pc[q] \in {"cache_delete", "mint"}}) < MaxTokens
    /\ LET req == Request("verify_otp", email, purpose, otp, "", "") IN
        IF otp_matches(cache_get(cache, otp_key(purpose, email)), otp)
        THEN Goto(p, "cache_delete", [req EXCEPT !.issue = issued[otp_key(purpose, email)].id])
        ELSE IF cache_get(cache, otp_key(purpose, email)) = None
        THEN Return(p, Response(req, 404, "No OTP requested.", {}, "", ""))
        ELSE Return(p, Response(req, 400, "Invalid or expired OTP.", {}, "", ""))
    /\ UNCHANGED <<now, cache, users, nextTok, issued, wins, minted>>

\* a verify_otp that drops the pending OTP when the code is wrong
VerifyOTPGetBurn(p, email, purpose, otp) ==
    /\ CanStart(p)
    /\ nextTok + Cardinality({q \in Procs : pc[q] \in {"cache_delete", "mint"}}) < MaxTokens
    /\ LET req == Request("verify_otp", email, purpose, otp, "", "") IN
        IF otp_matches(cache_get(cache, otp_key(purpose, email)), otp)
        THEN /\ Goto(p, "cache_delete", [req EXCEPT !.issue = issued[otp_key(purpose, email)].id])
             /\ cache' = cache
        ELSE /\ Return(p, [Response(req, 400, "Invalid or expired OTP.", {}, "", "")
                                EXCEPT !.attempt = Attempt(email, purpose, otp)])
             /\ cache' = cache_delete(cache, otp_key(purpose, email))
    /\ UNCHANGED <<now, users, nextTok, issued, wins, minted>>

\* VerifyOTPView.post up to the test of verify_otp: cache.get, and the 400
\* response when the test fails
VerifyOTPGet(p, email, purpose, otp) ==
    /\ CanStart(p)
    /\ check_throttles("verify", Attempt(email, purpose, otp))
    /\ nextTok + Cardinality({q \in Procs : pc[q] \in {"cache_delete", "mint"}}) < MaxTokens
    /\ LET req == Request("verify_otp", email, purpose, otp, "", "") IN
        IF otp_matches(cache_get(cache, otp_key(purpose, email)), otp)
        THEN Goto(p, "cache_delete", [req EXCEPT !.issue = issued[otp_key(purpose, email)].id])
        ELSE Return(p, [Response(req, 400, "Invalid or expired OTP.", {}, "", "")
                            EXCEPT !.attempt = Attempt(email, purpose, otp)])
    /\ UNCHANGED <<now, cache, users, nextTok, issued, wins, minted>>

\* cache.delete of verify_otp, which then returns True
VerifyOTPDelete(p) ==
    /\ pc[p] = "cache_delete"
    /\ cache' = cache_delete(cache, otp_key(loc[p].purpose, loc[p].email))
    /\ Goto(p, "mint", loc[p])
    /\ wins' = [wins EXCEPT ![loc[p].issue] = @ + 1]
    /\ issued' = [issued EXCEPT ![otp_key(loc[p].purpose, loc[p].email)].deleted = TRUE]
    /\ UNCHANGED <<now, users, nextTok, minted>>

\* a token stored with the lifetime of an OTP
store_verified_as_otp(c, purpose, token, email) ==
    cache_set(c, verified_key(purpose, token), email, OTP_EXPIRE_SECONDS)

\* cache.set(f"verified:{purpose}:{token}", email, 600) of VerifyOTPView.post
store_verified(c, purpose, token, email) ==
    cache_set(c, verified_key(purpose, token), email, VERIFIED_EXPIRE_SECONDS)

\* the token of VerifyOTPView.post: uuid4, cache.set and the 200 response
VerifyOTPMint(p) ==
    /\ pc[p] = "mint"
    /\ LET token == uuid4(nextTok + 1) IN
        /\ cache' = store_verified(cache, loc[p].purpose, token, loc[p].email)
        /\ minted' = [t \in DOMAIN minted \cup {token} |->
                        IF t = token
                        THEN [purpose |-> loc[p].purpose, email |-> loc[p].email,
                              at |-> now, issue |-> loc[p].issue, used |-> FALSE]
                        ELSE minted[t]]
        /\ Return(p, Response(loc[p], 200, "OTP verified successfully.", {}, token, ""))
    /\ nextTok' = nextTok + 1
    /\ UNCHANGED <<now, users, issued, wins>>

\* ------------------------------------------------------- the user table
\* user.set_password(raw): the stored value is a hash of raw, never raw
make_password(raw) == <<"pbkdf2_sha256", raw>>

\* a check that accepts every password
any_password(raw, encoded) == TRUE

\* user.check_password(raw)
check_password(raw, encoded) == encoded = make_password(raw)

\* the None of a DateTimeField
NoTime == 0 - 1

\* the addresses a registration is called with: one that is stored as it
\* is written, and one that differs from it in the case of the domain part
RawEmails == {"a@x.com", "a@X.com"}

\* BaseUserManager.normalize_email, which _create_user applies: the domain
\* part in lower case
normalize_email(email) == IF email = "a@X.com" THEN "a@x.com" ELSE email

\* User.objects.create_user(email, password): is_active, is_verified, otp
\* and otp_created_at keep the defaults of the model
create_user(u, email, password) ==
    [e \in DOMAIN u \cup {normalize_email(email)} |->
        IF e = normalize_email(email)
        THEN [password |-> make_password(password), is_active |-> TRUE, is_verified |-> FALSE,
              otp |-> None, otp_created_at |-> NoTime]
        ELSE u[e]]

\* the history of a token that an operation has succeeded with
Used(m, token) ==
    [t \in DOMAIN m |-> IF t = token THEN [m[t] EXCEPT !.used = TRUE] ELSE m[t]]

\* ---------------------------------------------------------------- signup
\* the field validators of SignupSerializer: min_length of password and the
\* UniqueValidator a ModelSerializer gives the unique email field
signup_field_errors(email, password) ==
    (IF Len(password) < PASSWORD_MIN_LENGTH THEN {"password"} ELSE {})
    \cup (IF email \in DOMAIN users THEN {"email"} ELSE {})

\* a test that only looks for an entry under the token
token_present(cached_email, email) == Truthy(cached_email)

\* the test of SignupSerializer.validate on the value cache.get returned
signup_token_ok(cached_email, email) == ~(~Truthy(cached_email) \/ cached_email # email)

\* SignupView.post up to is_valid: the field validators, then validate
SignupValidate(p, email, token, password) ==
    /\ CanStart(p)
    /\ LET req == Request("signup", email, "", "", token, password) IN
        IF signup_field_errors(email, password) # {}
        THEN Return(p, Response(req, 400, "", signup_field_errors(email, password), "", ""))
        ELSE IF ~signup_token_ok(cache_get(cache, signup_key(token)), email)
        THEN Return(p, Response(req, 400, "Invalid or expired token.",
                                {"verification_token"}, "", ""))
        ELSE Goto(p, "create_user", req)
    /\ UNCHANGED <<now, cache, users, nextTok, issued, wins, minted>>

\* a save on a table whose email column has no unique index
SignupCreateUnchecked(p) ==
    /\ pc[p] = "create_user"
    /\ users' = create_user(users, loc[p].email, loc[p].password)
    /\ minted' = Used(minted, loc[p].token)
    /\ Return(p, Pair(Response(loc[p], 201, "", {}, "", normalize_email(loc[p].email)),
                             for_user(normalize_email(loc[p].email))))
    /\ UNCHANGED <<now, cache, nextTok, issued, wins>>

\* serializer.save() and the 201 response with the access/refresh pair; the
\* unique index of email raises IntegrityError, which is caught nowhere
SignupCreate(p) ==
    /\ pc[p] = "create_user"
    /\ IF normalize_email(loc[p].email) \in DOMAIN users
       THEN /\ Return(p, Response(loc[p], 500, "Server Error", {}, "", ""))
            /\ UNCHANGED <<users, minted>>
       ELSE /\ users' = create_user(users, loc[p].email, loc[p].password)
            /\ minted' = Used(minted, loc[p].token)
            /\ Return(p, Pair(Response(loc[p], 201, "", {}, "", normalize_email(loc[p].email)),
                             for_user(normalize_email(loc[p].email))))
    /\ UNCHANGED <<now, cache, nextTok, issued, wins>>

\* ----------------------------------------------------------------- login
\* ModelBackend.user_can_authenticate
user_can_authenticate(user) == user.is_active

\* django.contrib.auth.authenticate(email=, password=) with the default
\* ModelBackend (settings.py sets no AUTHENTICATION_BACKENDS): the email of
\* the user, or None
authenticate(email, password) ==
    IF /\ email \in DOMAIN users
       /\ check_password(password, users[email].password)
       /\ user_can_authenticate(users[email])
    THEN email ELSE None

\* LoginView.post: LoginSerializer.validate and create
Login(p, email, password) ==
    /\ CanStart(p)
    /\ LET req == Request("login", email, "", "", "", password)
           user == authenticate(email, password) IN
        IF user = None
        THEN Return(p, Response(req, 400, "Invalid email or password.",
                                {"non_field_errors"}, "", ""))
        ELSE IF ~users[user].is_active
        THEN Return(p, Response(req, 400, "User account is disabled.",
                                {"non_field_errors"}, "", ""))
        ELSE Return(p, Pair(Response(req, 200, "", {}, "", user), for_user(user)))
    /\ UNCHANGED <<now, cache, users, nextTok, issued, wins, minted>>

\* -------------------------------------------------------- reset password
\* a test that accepts a token bound to any email
token_for_any_email(cached_email, email) == Truthy(cached_email)

\* the test of ResetPasswordSerializer.validate on the value cache.get returned
reset_token_ok(cached_email, email) == ~(~Truthy(cached_email) \/ cached_email # email)

\* ResetPasswordView.post up to is_valid: min_length of new_password, then validate
ResetValidate(p, email, token, new_password) ==
    /\ CanStart(p)
    /\ LET req == Request("reset_password", email, "", "", token, new_password) IN
        IF Len(new_password) < PASSWORD_MIN_LENGTH
        THEN Return(p, Response(req, 400, "", {"new_password"}, "", ""))
        ELSE IF ~reset_token_ok(cache_get(cache, reset_key(token)), email)
        THEN Return(p, Response(req, 400, "Invalid or expired token.",
                                {"verification_token"}, "", ""))
        ELSE Goto(p, "reset_save", req)
    /\ UNCHANGED <<now, cache, users, nextTok, issued, wins, minted>>

\* a save that answers 200 and writes nothing
ResetAcknowledge(p) ==
    /\ pc[p] = "reset_save"
    /\ Return(p, Response(loc[p], 200, "Password has been reset successfully.", {}, "", ""))
    /\ UNCHANGED <<now, cache, users, nextTok, issued, wins, minted>>

\* ResetPasswordSerializer.save and the 200 response
ResetSave(p) ==
    /\ pc[p] = "reset_save"
    /\ IF loc[p].email \notin DOMAIN users
       THEN /\ Return(p, Response(loc[p], 400, "No user found with this email.",
                                  {"email"}, "", ""))
            /\ UNCHANGED <<users, minted>>
       ELSE /\ users' = [users EXCEPT ![loc[p].email].password = make_password(loc[p].password)]
            /\ minted' = Used(minted, loc[p].token)
            /\ Return(p, Response(loc[p], 200, "Password has been reset successfully.",
                                  {}, "", ""))
    /\ UNCHANGED <<now, cache, nextTok, issued, wins>>

\* ------------------------------------------- the OTP-on-user-record flow
\* the passwords a registration or a login of this flow is called with
LegacyPasswords == {"secret1", "longsecret1"}

\* min_length of MinimumLengthValidator, which AUTH_PASSWORD_VALIDATORS
\* configures without options
VALIDATOR_MIN_LENGTH == 8

\* django validate_password under AUTH_PASSWORD_VALIDATORS; no password of
\* LegacyPasswords is numeric, common or similar to an attribute of the
\* user, which leaves the test of MinimumLengthValidator
validate_password(password) == Len(password) >= VALIDATOR_MIN_LENGTH

\* a save of the OTP without its timestamp
set_user_otp_only(u, email, otp, at) == [u EXCEPT ![email].otp = otp]

\* user.otp = otp; user.otp_created_at = timezone.now(); user.save()
set_user_otp(u, email, otp, at) ==
    [u EXCEPT ![email].otp = otp, ![email].otp_created_at = at]

\* UserRegistrationView.create up to user.save(): UserRegistrationSerializer
\* (the UniqueValidator of email, then validate, then create, where the
\* unique index of email raises IntegrityError), and the OTP written on the
\* user; otp is the value totp.now() returned
LegacyRegister(p, email, password, confirm_password, otp) ==
    /\ CanStart(p)
    /\ LET req == Request("register", email, "", otp, "", password) IN
        IF email \in DOMAIN users
        THEN /\ Return(p, Response(req, 400, "", {"email"}, "", ""))
             /\ users' = users
        ELSE IF password # confirm_password
        THEN /\ Return(p, Response(req, 400, "Password fields didn't match.",
                                   {"password"}, "", ""))
             /\ users' = users
        ELSE IF ~validate_password(password)
        THEN /\ Return(p, Response(req, 400, "", {"password"}, "", ""))
             /\ users' = users
        ELSE IF normalize_email(email) \in DOMAIN users
        THEN /\ Return(p, Response(req, 500, "Server Error", {}, "", ""))
             /\ users' = users
        ELSE /\ Goto(p, "register_mail", req)
             /\ users' = set_user_otp(create_user(users, email, password),
                                      normalize_email(email), otp, now)
    /\ UNCHANGED <<now, cache, nextTok, issued, wins, minted>>

\* UserRegistrationView.create from send_mail on: an exception of send_mail
\* is printed, and the response is the same whether or not one was raised
LegacyRegisterMail(p, delivered) ==
    /\ pc[p] = "register_mail"
    /\ Return(p, Mailed(Response(loc[p], 201,
                                 "User registered successfully. Please check your email for OTP.",
                                 {}, "", ""),
                        delivered))
    /\ UNCHANGED <<now, cache, users, nextTok, issued, wins, minted>>

\* an age test that refuses the OTP from 300 s on
otp_expired_at_limit(user) ==
    user.otp_created_at # NoTime /\ now - user.otp_created_at >= OTP_EXPIRE_SECONDS

\* the test of VerifyEmailView.post on the age of the OTP
otp_expired(user) ==
    user.otp_created_at # NoTime /\ now - user.otp_created_at > OTP_EXPIRE_SECONDS

\* a verify-email that marks the user verified and leaves the OTP on the record
VerifyEmailKeep(p, email, otp) ==
    /\ CanStart(p)
    /\ LET req == Request("verify_email", email, "", otp, "", "") IN
        IF email \notin DOMAIN users
        THEN /\ Return(p, Response(req, 400, "User with this email does not exist.",
                                   {"email"}, "", ""))
             /\ users' = users
        ELSE IF users[email].otp # otp \/ otp_expired(users[email])
        THEN /\ Return(p, Response(req, 400, "Invalid OTP. Please check the code and try again.",
                                   {}, "", ""))
             /\ users' = users
        ELSE /\ Return(p, Response(req, 200, "Email verified successfully. You can now login.",
                                   {}, "", ""))
             /\ users' = [users EXCEPT ![email].is_verified = TRUE]
    /\ UNCHANGED <<now, cache, nextTok, issued, wins, minted>>

\* VerifyEmailView.post: VerifyEmailSerializer.validate_email, then the
\* tests of the view in their order, then the save
VerifyEmail(p, email, otp) ==
    /\ CanStart(p)
    /\ LET req == Request("verify_email", email, "", otp, "", "") IN
        IF email \notin DOMAIN users
        THEN /\ Return(p, Response(req, 400, "User with this email does not exist.",
                                   {"email"}, "", ""))
             /\ users' = users
        ELSE IF ~Truthy(users[email].otp)
        THEN /\ Return(p, Response(req, 400,
                                   "No OTP generated for this user. Please request a new one.",
                                   {}, "", ""))
             /\ users' = users
        ELSE IF users[email].otp # otp
        THEN /\ Return(p, Response(req, 400, "Invalid OTP. Please check the code and try again.",
                                   {}, "", ""))
             /\ users' = users
        ELSE IF otp_expired(users[email])
        THEN /\ Return(p, Response(req, 400, "OTP has expired. Please request a new one.",
                                   {}, "", ""))
             /\ users' = users
        ELSE /\ Return(p, Response(req, 200, "Email verified successfully. You can now login.",
                                   {}, "", ""))
             /\ users' = [users EXCEPT ![email].is_verified = TRUE,
                                       ![email].otp = None,
                                       ![email].otp_created_at = NoTime]
    /\ UNCHANGED <<now, cache, nextTok, issued, wins, minted>>

\* a resend that writes the new code and keeps the timestamp of the old one
ResendOTPKeepWindow(p, email, otp) ==
    /\ CanStart(p)
    /\ LET req == Request("resend_otp", email, "", otp, "", "") IN
        IF email \notin DOMAIN users
        THEN /\ Return(p, Response(req, 400, "User with this email does not exist.",
                                   {"email"}, "", ""))
             /\ users' = users
        ELSE IF users[email].is_verified
        THEN /\ Return(p, Response(req, 400,
                                   "Email is already verified. No need to resend OTP.",
                                   {}, "", ""))
             /\ users' = users
        ELSE /\ Goto(p, "resend_mail", req)
             /\ users' = [users EXCEPT ![email].otp = otp]
    /\ UNCHANGED <<now, cache, nextTok, issued, wins, minted>>

\* ResendOTPView.post up to user.save(): ResendOTPSerializer.validate_email,
\* the test of is_verified, and the new OTP written on the user
ResendOTP(p, email, otp) ==
    /\ CanStart(p)
    /\ LET req == Request("resend_otp", email, "", otp, "", "") IN
        IF email \notin DOMAIN users
        THEN /\ Return(p, Response(req, 400, "User with this email does not exist.",
                                   {"email"}, "", ""))
             /\ users' = users
        ELSE IF users[email].is_verified
        THEN /\ Return(p, Response(req, 400,
                                   "Email is already verified. No need to resend OTP.",
                                   {}, "", ""))
             /\ users' = users
        ELSE /\ Goto(p, "resend_mail", req)
             /\ users' = set_user_otp(users, email, otp, now)
    /\ UNCHANGED <<now, cache, nextTok, issued, wins, minted>>

\* ResendOTPView.post from send_mail on
ResendMail(p, delivered) ==
    /\ pc[p] = "resend_mail"
    /\ Return(p, Mailed(IF delivered
                        THEN Response(loc[p], 200,
                                      "OTP resent successfully. Please check your email.",
                                      {}, "", "")
                        ELSE Response(loc[p], 500,
                                      "Failed to send OTP email. Please try again later.",
                                      {}, "", ""),
                        delivered))
    /\ UNCHANGED <<now, cache, users, nextTok, issued, wins, minted>>

\* CustomPasswordResetView.post: PasswordResetSerializer.validate_email,
\* then the view, which sends nothing and writes nothing
PasswordReset(p, email) ==
    /\ CanStart(p)
    /\ LET req == Request("password_reset", email, "", "", "", "") IN
        IF email \notin DOMAIN users
        THEN Return(p, Response(req, 400, "No user found with this email address.",
                                {"email"}, "", ""))
        ELSE Return(p, Response(req, 200, "Password reset link has been sent to your email.",
                                {}, "", ""))
    /\ UNCHANGED <<now, cache, users, nextTok, issued, wins, minted>>

\* the passwords a password-reset-confirm is called with
NewPasswords == {"secret1", "newsecret12"}

\* a confirm that sets the new password on the users
PasswordResetConfirmSave(p, password, confirm_password, token) ==
    /\ CanStart(p)
    /\ LET req == Request("password_reset_confirm", "", "", "", token, password) IN
        IF password # confirm_password \/ ~validate_password(password)
        THEN /\ Return(p, Response(req, 400, "", {"password"}, "", ""))
             /\ users' = users
        ELSE /\ Return(p, Response(req, 200, "Password has been reset successfully.",
                                   {}, "", ""))
             /\ users' = [e \in DOMAIN users |->
                            [users[e] EXCEPT !.password = make_password(password)]]
    /\ UNCHANGED <<now, cache, nextTok, issued, wins, minted>>

\* CustomPasswordResetConfirmView.post: PasswordResetConfirmSerializer.validate
\* and the response; the token is read by nothing
PasswordResetConfirm(p, password, confirm_password, token) ==
    /\ CanStart(p)
    /\ LET req == Request("password_reset_confirm", "", "", "", token, password) IN
        IF password # confirm_password
        THEN Return(p, Response(req, 400, "Password fields didn't match.",
                                {"password"}, "", ""))
        ELSE IF ~validate_password(password)
        THEN Return(p, Response(req, 400, "", {"password"}, "", ""))
        ELSE Return(p, Response(req, 200, "Password has been reset successfully.",
                                {}, "", ""))
    /\ UNCHANGED <<now, cache, users, nextTok, issued, wins, minted>>

\* USER_AUTHENTICATION_RULE of SimpleJWT, which TokenObtainPairSerializer
\* applies to what authenticate returned
default_user_authentication_rule(user) == user # None /\ users[user].is_active

\* CustomTokenObtainPairView.post: the validate of TokenObtainPairSerializer
\* that CustomTokenObtainPairSerializer.validate calls, and the pair
LegacyLogin(p, email, password) ==
    /\ CanStart(p)
    /\ LET req == Request("legacy_login", email, "", "", "", password)
           user == authenticate(email, password) IN
        IF ~default_user_authentication_rule(user)
        THEN Return(p, Response(req, 401,
                                "No active account found with the given credentials",
                                {}, "", ""))
        ELSE Return(p, Pair(Response(req, 200, "", {}, "", user), get_token(user)))
    /\ UNCHANGED <<now, cache, users, nextTok, issued, wins, minted>>

\* ----------------------------------------------------------------- admin
\* UserManager.create_superuser, run from the command line
create_superuser(email, password) ==
    /\ \A p \in Procs : pc[p] = "idle"
    /\ email \notin DOMAIN users
    /\ users' = create_user(users, email, password)
    /\ resp' = NoResponse
    /\ UNCHANGED <<now, cache, pc, loc, nextTok, issued, wins, minted>>

\* the is_active flag of AbstractUser, set outside the API (the admin site)
SetActive(email, flag) ==
    /\ \A p \in Procs : pc[p] = "idle"
    /\ email \in DOMAIN users
    /\ users[email].is_active # flag
    /\ users' = [users EXCEPT ![email].is_active = flag]
    /\ resp' = NoResponse
    /\ UNCHANGED <<now, cache, pc, loc, nextTok, issued, wins, minted>>

\* ------------------------------------------------------------ the clock
\* time passes while a cache entry or the OTP of a user has yet to expire
Advance ==
    /\ \A p \in Procs : pc[p] = "idle"
    /\ now + Tick <= MaxTime
    /\ \/ \E k \in DOMAIN cache : cache[k].expiry > now
       \/ \E e \in DOMAIN users : Truthy(users[e].otp) /\ ~otp_expired(users[e])
    /\ now' = now + Tick
    /\ resp' = NoResponse
    /\ UNCHANGED <<cache, users, pc, loc, nextTok, issued, wins, minted>>

\* time passes up to the instant at which the OTP of a user is exactly
\* OTP_EXPIRE_SECONDS old
AdvanceToLimit ==
    /\ \A p \in Procs : pc[p] = "idle"
    /\ \E e \in DOMAIN users :
        /\ Truthy(users[e].otp)
        /\ now < users[e].otp_created_at + OTP_EXPIRE_SECONDS
        /\ now' = users[e].otp_created_at + OTP_EXPIRE_SECONDS
    /\ now' <= MaxTime
    /\ resp' = NoResponse
    /\ UNCHANGED <<cache, users, pc, loc, nextTok, issued, wins, minted>>

\* ---------------------------------------------------------------- spec
Init ==
    /\ now = 0
    /\ cache = <<>>
    /\ users = <<>>
    /\ pc = [p \in Procs |-> "idle"]
    /\ loc = [p \in Procs |-> NoRequest]
    /\ resp = NoResponse
    /\ nextTok = 0
    /\ issued = <<>>
    /\ wins = <<>>
    /\ minted = <<>>

\* the handler of login
LoginStep(p) == \E e \in Emails, w \in Passwords : Login(p, e, w)

\* the handlers of request_otp and verify_otp for the addresses in emails;
\* generate_otp draws from otps, and at most limit OTPs are requested
OtpStep(p, emails, otps, limit) ==
    \/ /\ Len(wins) < limit
       /\ \E e \in emails, u \in Purposes, c \in otps : RequestOTP(p, e, u, c)
    \/ \E d \in BOOLEAN : SendMail(p, d)
    \/ \E e \in emails, u \in Purposes, c \in Codes : VerifyOTPGet(p, e, u, c)
    \/ VerifyOTPDelete(p)
    \/ VerifyOTPMint(p)

\* the handlers that consume a verification token, and login
AccountStep(p) ==
    \/ \E e \in Emails, t \in Tokens, w \in Passwords : SignupValidate(p, e, t, w)
    \/ SignupCreate(p)
    \/ LoginStep(p)
    \/ \E e \in Emails, t \in Tokens, w \in Passwords : ResetValidate(p, e, t, w)
    \/ ResetSave(p)

\* the whole service, requests handled one after another, each to its
\* response; the value of an OTP plays no part in what follows its
\* verification, so generate_otp draws from OneCode here
Next ==
    \/ OtpStep(1, Emails, OneCode, MaxFlows)
    \/ AccountStep(1)
    \/ \E e \in OneEmail, w \in Passwords : create_superuser(e, w)
    \/ Advance

Spec == Init /\ [][Next]_vars

\* the whole service for one address, with the admin site setting is_active
NextLogin ==
    \/ OtpStep(1, OneEmail, OneCode, MaxFlows)
    \/ AccountStep(1)
    \/ \E e \in OneEmail, w \in Passwords : create_superuser(e, w)
    \/ \E e \in OneEmail, f \in BOOLEAN : SetActive(e, f)
    \/ Advance

SpecLogin == Init /\ [][NextLogin]_vars

\* request_otp and verify_otp for one address, handled one after another
NextOtp ==
    \/ OtpStep(1, OneEmail, Codes, MaxRequests)
    \/ Advance

SpecOtp == Init /\ [][NextOtp]_vars

\* request_otp and verify_otp requests of two workers for one address,
\* interleaved at their cache accesses
NextConc ==
    \/ \E p \in Procs : OtpStep(p, OneEmail, Codes, MaxRequests)
    \/ Advance

SpecConc == Init /\ [][NextConc]_vars

\* the handlers of the OTP-on-user-record flow
LegacyStep(p) ==
    \/ \E e \in Emails, w \in LegacyPasswords, v \in LegacyPasswords, c \in Codes :
            LegacyRegister(p, e, w, v, c)
    \/ \E d \in BOOLEAN : LegacyRegisterMail(p, d)
    \/ \E e \in Emails, c \in Codes : VerifyEmail(p, e, c)
    \/ \E e \in Emails, c \in Codes : ResendOTP(p, e, c)
    \/ \E d \in BOOLEAN : ResendMail(p, d)
    \/ \E e \in Emails, w \in LegacyPasswords : LegacyLogin(p, e, w)
    \/ \E e \in Emails : PasswordReset(p, e)
    \/ \E w \in NewPasswords, v \in NewPasswords, t \in Tokens :
            PasswordResetConfirm(p, w, v, t)

\* the OTP-on-user-record flow, requests handled one after
\* another
NextLegacy ==
    \/ LegacyStep(1)
    \/ Advance
    \/ AdvanceToLimit

SpecLegacy == Init /\ [][NextLegacy]_vars

\* the two registrations, with request_otp and verify_otp, for addresses
\* that are stored under one email
NextRegister ==
    \/ OtpStep(1, RawEmails, OneCode, MaxFlows)
    \/ \E e \in RawEmails, t \in Tokens, w \in Passwords : SignupValidate(1, e, t, w)
    \/ SignupCreate(1)
    \/ \E e \in RawEmails, w \in LegacyPasswords, c \in OneCode : LegacyRegister(1, e, w, w, c)
    \/ \E d \in BOOLEAN : LegacyRegisterMail(1, d)
    \/ Advance

SpecRegister == Init /\ [][NextRegister]_vars

\* ================================================================ claims
\* the OTP key of a request for (email, purpose) has been written
Requested(e, u) == otp_key(u, e) \in DOMAIN issued

\* the request_otp call that last wrote the OTP of (email, purpose)
Last(e, u) == issued[otp_key(u, e)]

\* verify_otp answered 400 to the request just handled
VerifyFailed == resp.status = 400 /\ resp.req.op = "verify_otp"

\* C1: after request_otp stores code c for (email, purpose), a verify_otp
\* with c before the 300 s have passed succeeds when no verify_otp has yet
\* succeeded with it, and a verify_otp with c after one has succeeded (no
\* request_otp in between) fails with 400: one issued OTP is verified at
\* most once when the requests are handled one after another.
C1_VerifyOnce ==
    [][\A e \in Emails, u \in Purposes :
        (Requested(e, u) /\ VerifyOTPGet(1, e, u, Last(e, u).code)) =>
            /\ (wins[Last(e, u).id] = 0 /\ now < Last(e, u).at + OTP_EXPIRE_SECONDS)
                    => pc'[1] = "cache_delete"
            /\ wins[Last(e, u).id] > 0
                    => (pc'[1] = "idle" /\ resp'.status = 400 /\ resp'.token = "")
            /\ \A i \in DOMAIN wins : wins[i] <= 1]_vars

\* C1 witness: a verify_otp with the stored code has just failed, within
\* the 300 s, because an earlier verify_otp with that code succeeded
C1_SecondVerifyFailed ==
    /\ VerifyFailed
    /\ Requested(resp.req.email, resp.req.purpose)
    /\ resp.req.otp = Last(resp.req.email, resp.req.purpose).code
    /\ wins[Last(resp.req.email, resp.req.purpose).id] = 1
    /\ now < Last(resp.req.email, resp.req.purpose).at + OTP_EXPIRE_SECONDS

\* C2: a verify_otp with the stored code more than 300 s after the
\* request_otp that stored it fails with 400; it returns no token, draws no
\* uuid4 and writes nothing to the cache.
C2_ExpiredOtpFails ==
    [][\A e \in Emails, u \in Purposes :
        (/\ Requested(e, u)
         /\ now > Last(e, u).at + OTP_EXPIRE_SECONDS
         /\ VerifyOTPGet(1, e, u, Last(e, u).code)) =>
            /\ pc'[1] = "idle"
            /\ resp'.status = 400
            /\ resp'.token = ""
            /\ cache' = cache
            /\ nextTok' = nextTok
            /\ minted' = minted]_vars

\* C2 witness: a verify_otp with the stored code, never verified before, has
\* just failed more than 300 s after its request_otp
C2_VerifyAfterTtlFailed ==
    /\ VerifyFailed
    /\ Requested(resp.req.email, resp.req.purpose)
    /\ resp.req.otp = Last(resp.req.email, resp.req.purpose).code
    /\ wins[Last(resp.req.email, resp.req.purpose).id] = 0
    /\ now > Last(resp.req.email, resp.req.purpose).at + OTP_EXPIRE_SECONDS

\* the verification tokens minted from the OTP of the i-th request_otp
TokensOf(i) == {t \in DOMAIN minted : minted[t].issue = i}

\* C3: whatever the interleaving of concurrent verify_otp calls with the
\* code of one pending OTP, at most one of them returns success and at most
\* one verification token is minted for that OTP.
C3_AtMostOneSuccess ==
    \A i \in DOMAIN wins : wins[i] <= 1 /\ Cardinality(TokensOf(i)) <= 1

\* C4: after concurrent request_otp calls for one (email, purpose), the
\* cache holds one OTP for the key, the code of the call that wrote last,
\* live for 300 s from that write while no verify_otp has deleted it: a
\* verify_otp with that code is not refused, and a verify_otp that passes
\* the test after the last write has presented that code and no other.
C4_LastWriteWins ==
    /\ \A e \in Emails, u \in Purposes :
        (/\ Requested(e, u)
         /\ ~Last(e, u).deleted
         /\ now < Last(e, u).at + OTP_EXPIRE_SECONDS) =>
            /\ cache_get(cache, otp_key(u, e)) = Last(e, u).code
            /\ ~(/\ VerifyFailed
                  /\ resp.req.email = e /\ resp.req.purpose = u
                  /\ resp.req.otp = Last(e, u).code)
    /\ \A p \in Procs :
        (/\ pc[p] = "cache_delete"
         /\ loc[p].issue = Last(loc[p].email, loc[p].purpose).id) =>
            loc[p].otp = Last(loc[p].email, loc[p].purpose).code

\* C4 witness: two request_otp calls for one key overlapped and have both
\* finished; the cache holds the code written last, and a verify_otp with
\* the other code has just failed
C4_EarlierCodeFailed ==
    /\ \A p \in Procs : pc[p] = "idle"
    /\ VerifyFailed
    /\ Requested(resp.req.email, resp.req.purpose)
    /\ Last(resp.req.email, resp.req.purpose).raced
    /\ Truthy(Last(resp.req.email, resp.req.purpose).prevCode)
    /\ resp.req.otp = Last(resp.req.email, resp.req.purpose).prevCode
    /\ resp.req.otp # Last(resp.req.email, resp.req.purpose).code
    /\ cache_get(cache, otp_key(resp.req.purpose, resp.req.email))
            = Last(resp.req.email, resp.req.purpose).code

\* C5: a request_otp for a key with a pending OTP replaces the code and
\* sets the expiry to 300 s after this request; afterwards a verify_otp
\* with the replaced code, when different, fails, and one with the new code
\* goes on until 300 s after the second request.
C5_SecondRequestReplaces ==
    [][\A e \in Emails, u \in Purposes :
        /\ \A c \in Codes :
            (Truthy(cache_get(cache, otp_key(u, e))) /\ RequestOTP(1, e, u, c)) =>
                cache'[otp_key(u, e)] = [value |-> c, expiry |-> now + OTP_EXPIRE_SECONDS]
        /\ (Requested(e, u) /\ Truthy(Last(e, u).prevCode)) =>
            /\ (/\ Last(e, u).prevCode # Last(e, u).code
                 /\ VerifyOTPGet(1, e, u, Last(e, u).prevCode)) =>
                    (pc'[1] = "idle" /\ resp'.status = 400)
            /\ (/\ ~Last(e, u).deleted
                 /\ now < Last(e, u).at + OTP_EXPIRE_SECONDS
                 /\ VerifyOTPGet(1, e, u, Last(e, u).code)) =>
                    pc'[1] = "cache_delete"]_vars

\* C5 witness: the code of a second request_otp, which replaced a pending
\* and different code, has been accepted 300 s or more after the first request
C5_NewCodeAcceptedOnNewTtl ==
    \E e \in Emails, u \in Purposes :
        /\ pc[1] = "cache_delete"
        /\ loc[1].email = e /\ loc[1].purpose = u
        /\ Requested(e, u)
        /\ Truthy(Last(e, u).prevCode)
        /\ Last(e, u).prevCode # Last(e, u).code
        /\ loc[1].otp = Last(e, u).code
        /\ now >= Last(e, u).prevAt + OTP_EXPIRE_SECONDS

\* token is live: minted, and less than 600 s old
Live(t) == t \in DOMAIN minted /\ now < minted[t].at + VERIFIED_EXPIRE_SECONDS

\* the handler answered 400 to a request of kind op presenting a minted token
Rejected(op) ==
    /\ resp.status = 400
    /\ resp.req.op = op
    /\ resp.req.token \in DOMAIN minted

\* the handler of worker 1 has passed is_valid and is about to write the
\* user table
Validated == pc[1] \in {"create_user", "reset_save"}

\* the purpose whose tokens an operation consumes
PurposeOf(op) == IF op = "signup" THEN "register" ELSE "reset"

\* complete_registration or reset_password has just answered with success
Succeeded == resp.req.op \in {"signup", "reset_password"} /\ resp.status \in {200, 201}

\* C6: a token minted for purpose 'reset' is rejected by
\* complete_registration, and a token minted for purpose 'register' is
\* rejected by reset_password as an invalid token, for every email, the one
\* the token is bound to included: a call passes validation, and succeeds,
\* only with a token minted for the purpose of its operation.
C6_PurposeIsolation ==
    /\ Validated =>
            /\ loc[1].token \in DOMAIN minted
            /\ minted[loc[1].token].purpose = PurposeOf(loc[1].op)
    /\ Succeeded =>
            /\ resp.req.token \in DOMAIN minted
            /\ minted[resp.req.token].purpose = PurposeOf(resp.req.op)
    /\ (Rejected("reset_password") /\ minted[resp.req.token].purpose = "register") =>
            resp.errors = {"verification_token"}

\* C6 witness: reset_password has just rejected a live token minted for
\* purpose 'register', presented with the email it is bound to
C6_RegisterTokenRejectedByReset ==
    /\ Rejected("reset_password")
    /\ Live(resp.req.token)
    /\ minted[resp.req.token].purpose = "register"
    /\ minted[resp.req.token].email = resp.req.email
    /\ resp.errors = {"verification_token"}

\* a call with a live token of its purpose and an email other than the one
\* the token is bound to has just been answered 400
MismatchRejected ==
    /\ \/ Rejected("signup")
       \/ Rejected("reset_password")
    /\ Live(resp.req.token)
    /\ minted[resp.req.token].purpose = PurposeOf(resp.req.op)
    /\ minted[resp.req.token].email # resp.req.email

\* a call passes validation, and succeeds, only with the email its token is
\* bound to
BoundEmailOnly ==
    /\ Validated => minted[loc[1].token].email = loc[1].email
    /\ Succeeded => minted[resp.req.token].email = resp.req.email

\* C7 as the specification states it: complete_registration and
\* reset_password with a live token of their purpose and an email other than
\* the one it is bound to fail with the invalid-token error, and change no user.
C7_MismatchIsInvalidToken ==
    /\ BoundEmailOnly
    /\ MismatchRejected => resp.errors = {"verification_token"}

\* C7 amended: such a call fails with 400 and changes no user; the error is
\* the invalid-token error, except that complete_registration for an email
\* that is already registered fails on the email field before the token is
\* looked at.
C7_MismatchRejected ==
    /\ BoundEmailOnly
    /\ MismatchRejected =>
            resp.errors = IF resp.req.op = "signup" /\ resp.req.email \in DOMAIN users
                          THEN {"email"} ELSE {"verification_token"}

\* C7 witness: complete_registration has just rejected, as an invalid
\* token, a live 'register' token presented with an email it is not bound to
C7_OtherEmailRejected ==
    /\ Rejected("signup")
    /\ Live(resp.req.token)
    /\ minted[resp.req.token].purpose = "register"
    /\ minted[resp.req.token].email # resp.req.email
    /\ resp.errors = {"verification_token"}

\* C8: after a complete_registration or reset_password call has succeeded
\* with a token, every later complete_registration or reset_password call
\* with that token is rejected: none passes validation.
C8_TokenSingleUse == Validated => ~minted[loc[1].token].used

\* the verify_otp calls that have returned True so far
RECURSIVE Successes(_)
Successes(i) == IF i = 0 THEN 0 ELSE wins[i] + Successes(i - 1)

\* the cache keys of the OTPs requested and of the tokens minted so far
KeysWritten ==
    DOMAIN issued \cup {verified_key(minted[t].purpose, t) : t \in DOMAIN minted}

\* C9: a verify_otp that succeeds has stored verified:{purpose}:{token} ->
\* email with expiry 600 s from now and returns that token with 200; a
\* verify_otp that fails returns no token, and the cache holds a verified:*
\* entry only for a token minted by a verify_otp that returned True; a call
\* of complete_registration or reset_password passes validation only less
\* than 600 s after its token was minted.
C9_TokenMintedFor600s ==
    /\ (resp.req.op = "verify_otp" /\ resp.status = 200) =>
            /\ resp.token = uuid4(nextTok)
            /\ verified_key(resp.req.purpose, resp.token) \in DOMAIN cache
            /\ cache[verified_key(resp.req.purpose, resp.token)]
                    = [value |-> resp.req.email, expiry |-> now + VERIFIED_EXPIRE_SECONDS]
    /\ VerifyFailed => resp.token = ""
    /\ DOMAIN cache \subseteq KeysWritten
    /\ Cardinality(DOMAIN minted) <= Successes(Len(wins))
    /\ Validated => now < minted[loc[1].token].at + VERIFIED_EXPIRE_SECONDS

\* C9 witness: reset_password has just rejected, as an invalid token, a
\* 'reset' token presented with its email more than 600 s after it was minted
C9_TokenRejectedAfter600s ==
    /\ Rejected("reset_password")
    /\ minted[resp.req.token].purpose = "reset"
    /\ minted[resp.req.token].email = resp.req.email
    /\ ~minted[resp.req.token].used
    /\ now > minted[resp.req.token].at + VERIFIED_EXPIRE_SECONDS
    /\ resp.errors = {"verification_token"}

\* C10: login with the correct password of a user whose is_active is false
\* fails with 'User account is disabled.' and issues no credentials.
C10_DisabledAccountMessage ==
    [][\A e \in Emails, w \in Passwords :
        (/\ e \in DOMAIN users
         /\ check_password(w, users[e].password)
         /\ ~users[e].is_active
         /\ Login(1, e, w)) =>
            /\ resp'.status = 400
            /\ resp'.detail = "User account is disabled."
            /\ resp'.user = ""]_vars

\* the failure of login that InvalidCredentials names
InvalidCredentials(r) ==
    /\ r.status = 400
    /\ r.detail = "Invalid email or password."
    /\ r.user = ""

\* the stored password of the user with email e is the hash of w
PasswordIs(e, w) == e \in DOMAIN users /\ users[e].password = make_password(w)

\* C11: login answers 200 with the access/refresh pair of a user only when
\* a user with the email exists and the password matches the stored one; when
\* no user has the email or the password is wrong it fails with 'Invalid
\* email or password.', issues no pair and leaves the user table, the cache
\* and the token counter as they are.
C11_LoginNeedsCredentials ==
    [][\A e \in Emails, w \in Passwords :
        Login(1, e, w) =>
            /\ resp'.status = 200 =>
                    /\ PasswordIs(e, w)
                    /\ resp'.user = e
            /\ ~PasswordIs(e, w) =>
                    /\ InvalidCredentials(resp')
                    /\ <<users, cache, nextTok>>' = <<users, cache, nextTok>>]_vars

\* C11 witness: login has just failed with InvalidCredentials for the email
\* of an active user, so with a wrong password
C11_WrongPasswordRefused ==
    /\ resp.req.op = "login"
    /\ InvalidCredentials(resp)
    /\ resp.req.email \in DOMAIN users
    /\ users[resp.req.email].is_active

\* C12: a complete_registration that succeeds has created the user with
\* is_verified true and answers 201 with that user and its access/refresh pair.
C12_SignupCreatesVerifiedUser ==
    (resp.req.op = "signup" /\ resp.status = 201) =>
        /\ resp.user = resp.req.email
        /\ resp.user \in DOMAIN users
        /\ users[resp.user].is_verified

\* token t is a live 'reset' token bound to email e
ValidResetToken(t, e) ==
    Live(t) /\ minted[t].purpose = "reset" /\ minted[t].email = e

\* C13: a reset_password that succeeds presented a reset token bound to its
\* email, replaces the stored password of the user with that email by the
\* hash of the new one, changes nothing else of the user table and issues no
\* credentials; with a valid token and no user for the email it fails with
\* 'No user found with this email.'; a reset_password that fails changes no user.
C13_ResetReplacesPassword ==
    [][resp'.req.op = "reset_password" =>
        IF resp'.status = 200
        THEN /\ resp'.req.token \in DOMAIN minted
             /\ minted[resp'.req.token].purpose = "reset"
             /\ minted[resp'.req.token].email = resp'.req.email
             /\ resp'.req.email \in DOMAIN users
             /\ users' = [users EXCEPT ![resp'.req.email].password =
                                            make_password(resp'.req.password)]
             /\ resp'.user = ""
        ELSE /\ resp'.status = 400
             /\ resp'.user = ""
             /\ users' = users
             /\ resp'.errors = {"email"} => resp'.req.email \notin DOMAIN users
             /\ ValidResetToken(resp'.req.token, resp'.req.email) =>
                    /\ resp'.req.email \notin DOMAIN users
                    /\ resp'.errors = {"email"}
                    /\ resp'.detail = "No user found with this email."]_vars

\* C13 witness: reset_password has just succeeded with a live reset token
\* bound to its email, and the stored password is the hash of the new one
C13_PasswordReplaced ==
    /\ resp.req.op = "reset_password"
    /\ resp.status = 200
    /\ ValidResetToken(resp.req.token, resp.req.email)
    /\ users[resp.req.email].password = make_password(resp.req.password)

\* why a verify_otp for (e, u) with code c cannot succeed now: no OTP is
\* stored, the stored OTP has expired, or the code is wrong
FailureCase(e, u, c) ==
    IF otp_key(u, e) \notin DOMAIN cache THEN "none"
    ELSE IF cache[otp_key(u, e)].expiry <= now THEN "expired"
    ELSE IF cache[otp_key(u, e)].value # c THEN "wrong"
    ELSE "match"

\* the one failure of verify_otp, a function of the request alone
VerifyFailure(e, u, c) ==
    Response(Request("verify_otp", e, u, c, "", ""), 400, "Invalid or expired OTP.", {}, "", "")

\* C14: verify_otp answers with the same status and body when no OTP is
\* pending for (email, purpose), when the pending OTP has expired and when
\* the code is wrong, and changes nothing in any of the three cases.
C14_FailuresIndistinguishable ==
    [][\A e \in Emails, u \in Purposes, c \in Codes :
        (VerifyOTPGet(1, e, u, c) /\ FailureCase(e, u, c) \in {"none", "expired", "wrong"}) =>
            /\ [resp' EXCEPT !.attempt = 0] = VerifyFailure(e, u, c)
            /\ pc'[1] = "idle"
            /\ cache' = cache]_vars

\* C14 witness: a verify_otp for a key no OTP was ever requested for has
\* just failed with the response a wrong code gets
C14_NoPendingSameFailure ==
    /\ VerifyFailed
    /\ ~Requested(resp.req.email, resp.req.purpose)
    /\ resp.detail = "Invalid or expired OTP."

\* the responses of request_otp, functions of the request and of the fate
\* of its e-mail alone
RequestOTPResponse(req, mail) ==
    Mailed(IF mail = "sent"
           THEN Response(req, 200, "OTP has been sent to " \o req.email
                                      \o ". It is valid for 5 minutes.", {}, "", "")
           ELSE Response(req, 500, "Server Error", {}, "", ""),
           mail = "sent")

\* C15: request_otp makes no account-existence check: whether or not a user
\* has the email, it stores the OTP under otp:{purpose}:{email} for 300 s,
\* attempts delivery, and answers with a response that depends on the
\* request and on the delivery alone.
C15_NoExistenceCheck ==
    /\ pc[1] = "send_mail" =>
            /\ otp_key(loc[1].purpose, loc[1].email) \in DOMAIN cache
            /\ cache[otp_key(loc[1].purpose, loc[1].email)]
                    = [value |-> loc[1].otp, expiry |-> now + OTP_EXPIRE_SECONDS]
    /\ resp.req.op = "request_otp" =>
            /\ resp.mail \in {"sent", "failed"}
            /\ resp = RequestOTPResponse(resp.req, resp.mail)
            /\ Requested(resp.req.email, resp.req.purpose)

\* C15 witness: request_otp for purpose 'reset' and an email no user has
\* has just answered 200, its OTP stored
C15_OtpSentWithoutAccount ==
    /\ resp.req.op = "request_otp"
    /\ resp.req.purpose = "reset"
    /\ resp.status = 200
    /\ resp.req.email \notin DOMAIN users
    /\ cache_get(cache, otp_key(resp.req.purpose, resp.req.email)) = resp.req.otp

\* C16: a rate limiter in front of verify_otp bounds the wrong codes that
\* are evaluated against one pending OTP: a verify_otp that presents the
\* MaxAttempts-th wrong code in a row for a pending OTP is never evaluated
\* and answered by the view.
C16_WrongCodesBounded == VerifyFailed => resp.attempt < MaxAttempts

\* C17: when send_mail fails during request_otp the operation fails: the
\* response is the success response "OTP has been sent ..." exactly when
\* the message was delivered, and an error response when it was not.
C17_DeliveryFailureFails ==
    resp.req.op = "request_otp" =>
        /\ resp.mail \in {"sent", "failed"}
        /\ resp.status = 200 <=> resp.mail = "sent"
        /\ resp.mail = "failed" => resp.status >= 500

\* a request_otp whose message was not delivered has been answered with an
\* error, the OTP it stored still pending
C17_UndeliveredAnsweredWithError ==
    /\ resp.req.op = "request_otp"
    /\ resp.mail = "failed"
    /\ resp.status = 500
    /\ cache_get(cache, otp_key(resp.req.purpose, resp.req.email)) = resp.req.otp

\* C18: in the OTP-on-user-record flow a failed send_mail is never answered
\* with success: neither registration nor resend-OTP returns a 2xx response
\* when the e-mail that carries the OTP was not delivered.
C18_LegacyDeliveryFailureFails ==
    resp.req.op \in {"register", "resend_otp"} /\ resp.mail = "failed" => resp.status >= 400

\* C19: in the OTP-on-user-record flow is_verified gates login: the login
\* endpoint issues an access/refresh pair only for a user whose is_verified
\* flag is true, so none is issued between a registration and the
\* verify-email that succeeds for it.
C19_VerifiedGatesLogin ==
    resp.req.op = "legacy_login" /\ resp.status = 200 => users[resp.user].is_verified

\* C20: verify-email is compare-and-clear: a verify-email whose code equals
\* the otp stored on the user, not more than 300 s after otp_created_at,
\* answers 200, sets is_verified and clears otp and otp_created_at (so the
\* same code finds no otp the next time); a verify-email whose code differs
\* from the stored otp answers 400 and leaves every user as it was.
C20_CompareAndClear ==
    [][resp'.req.op = "verify_email" /\ resp'.req.email \in DOMAIN users =>
        LET e == resp'.req.email
            c == resp'.req.otp
            u == users[e] IN
        /\ (u.otp = c /\ now - u.otp_created_at <= OTP_EXPIRE_SECONDS) =>
                /\ resp'.status = 200
                /\ users' = [users EXCEPT ![e] = [u EXCEPT !.is_verified = TRUE,
                                                           !.otp = None,
                                                           !.otp_created_at = NoTime]]
        /\ u.otp # c =>
                /\ resp'.status = 400
                /\ users' = users]_vars

\* a verify-email for a user that an earlier verify-email has verified was
\* refused: there is no otp left on the user
C20_SecondVerifyRefused ==
    /\ resp.req.op = "verify_email"
    /\ resp.status = 400
    /\ resp.req.email \in DOMAIN users
    /\ users[resp.req.email].is_verified
    /\ users[resp.req.email].otp = None
    /\ users[resp.req.email].otp_created_at = NoTime

\* C21: the OTP on the user record is valid for 5 minutes: a verify-email
\* with the stored code more than 300 s after otp_created_at is answered 400
\* and leaves the user unverified with otp and otp_created_at as they were;
\* one with the stored code at most 300 s after otp_created_at is accepted.
C21_LegacyOtpValidFor300s ==
    [][resp'.req.op = "verify_email" /\ resp'.req.email \in DOMAIN users =>
        LET e == resp'.req.email
            u == users[e] IN
        u.otp = resp'.req.otp =>
            IF now - u.otp_created_at > OTP_EXPIRE_SECONDS
            THEN /\ resp'.status = 400
                 /\ users' = users
                 /\ ~users'[e].is_verified
            ELSE /\ resp'.status = 200
                 /\ users'[e].is_verified]_vars

\* a verify-email with the stored code was refused as expired, and the user
\* is unverified with the OTP still on the record
C21_CorrectCodeRefusedAfter300s ==
    /\ resp.req.op = "verify_email"
    /\ resp.status = 400
    /\ resp.req.email \in DOMAIN users
    /\ users[resp.req.email].otp = resp.req.otp
    /\ now - users[resp.req.email].otp_created_at > OTP_EXPIRE_SECONDS
    /\ ~users[resp.req.email].is_verified

\* C22: the password-reset request answers the same whether or not an
\* account has the email: its response is the success response, and no
\* validation error that tells of a missing account is ever returned.
C22_ResetRequestHidesExistence ==
    resp.req.op = "password_reset" =>
        /\ resp.status = 200
        /\ resp.errors = {}
        /\ resp.detail = "Password reset link has been sent to your email."

\* C23: email identifies a user through any sequence of registrations of
\* both kinds: no step changes or removes an identity that exists, and an
\* identity is created (by the save of complete_registration or of the
\* registration on the user record) only under an email that had none, so a
\* registration for an email that has an identity fails, whatever
\* verification token it carries.
C23_EmailIdentifiesUser ==
    [][/\ \A e \in DOMAIN users : e \in DOMAIN users' /\ users'[e] = users[e]
       /\ (resp'.req.op = "signup" /\ resp'.status < 400) =>
                /\ normalize_email(resp'.req.email) \notin DOMAIN users
                /\ DOMAIN users' = DOMAIN users \cup {normalize_email(resp'.req.email)}
       /\ (pc[1] = "idle" /\ pc'[1] = "register_mail") =>
                /\ normalize_email(loc'[1].email) \notin DOMAIN users
                /\ DOMAIN users' = DOMAIN users \cup {normalize_email(loc'[1].email)}
       /\ (resp'.req.op \in {"signup", "register"} /\ resp'.status >= 400) =>
                users' = users
       /\ (resp'.req.op \in {"signup", "register"}
                /\ normalize_email(resp'.req.email) \in DOMAIN users
                /\ pc[1] # "register_mail") =>
                resp'.status >= 400]_vars

\* a complete_registration that carried a live verification token bound to
\* its email was refused, the email having an identity
C23_SignupWithLiveTokenRefused ==
    /\ resp.req.op = "signup"
    /\ resp.status >= 400
    /\ normalize_email(resp.req.email) \in DOMAIN users
    /\ cache_get(cache, signup_key(resp.req.token)) = resp.req.email

\* C24: every access/refresh pair that login or complete_registration
\* issues carries the claims email, first_name, last_name, role and
\* user_id of the user it is issued for.
C24_PairCarriesClaimSet ==
    resp.user # "" => resp.claims = {"email", "first_name", "last_name", "role", "user_id"}

\* the verify_otp that minted token t succeeded for this email and purpose
\* no more than 600 s ago
ProofFor(t, email, purpose) ==
    /\ t \in DOMAIN minted
    /\ minted[t].purpose = purpose
    /\ normalize_email(minted[t].email) = email
    /\ minted[t].at <= now
    /\ now - minted[t].at <= VERIFIED_EXPIRE_SECONDS

C26_PasswordNeedsResetProof ==
    [][\A e \in DOMAIN users :
        (e \in DOMAIN users' /\ users'[e].password # users[e].password) =>
            /\ resp'.req.op = "reset_password"
            /\ resp'.req.email = e
            /\ ProofFor(resp'.req.token, e, "reset")]_vars

\* a reset_password has set the password of a user with a token minted for
\* the email of that user at an earlier instant
C26_PasswordChangedOnProof ==
    /\ resp.req.op = "reset_password"
    /\ resp.status = 200
    /\ resp.req.email \in DOMAIN users
    /\ users[resp.req.email].password = make_password(resp.req.password)
    /\ ProofFor(resp.req.token, resp.req.email, "reset")
    /\ minted[resp.req.token].at < now

\* the key under which the OTP requested for (email, purpose) is pending
PendingKey(e, u) == "otp:" \o u \o ":" \o e

\* C27: an OTP verifies only for the email and the purpose it was requested
\* for: a verify_otp passes the test, and succeeds, only when a request_otp
\* for its own email and purpose stored the code it presents; every other
\* verify_otp fails, and an OTP that no verify_otp has consumed stays
\* pending with its code until its 300 s are over.
C27_OtpBoundToEmailAndPurpose ==
    /\ pc[1] \in {"cache_delete", "mint"} =>
            /\ PendingKey(loc[1].email, loc[1].purpose) \in DOMAIN issued
            /\ issued[PendingKey(loc[1].email, loc[1].purpose)].code = loc[1].otp
    /\ (resp.req.op = "verify_otp" /\ resp.status = 200) =>
            /\ PendingKey(resp.req.email, resp.req.purpose) \in DOMAIN issued
            /\ issued[PendingKey(resp.req.email, resp.req.purpose)].code = resp.req.otp
    /\ \A e \in Emails, u \in Purposes :
            (/\ PendingKey(e, u) \in DOMAIN issued
             /\ ~issued[PendingKey(e, u)].deleted
             /\ now < issued[PendingKey(e, u)].at + OTP_EXPIRE_SECONDS) =>
                cache_get(cache, PendingKey(e, u)) = issued[PendingKey(e, u)].code

\* a verify_otp with the code of a pending OTP, for another purpose or
\* another email than the OTP was requested for, has failed, and the OTP is
\* still pending
C27_CorrectCodeElsewhereFailed ==
    /\ VerifyFailed
    /\ \E e \in Emails, u \in Purposes :
        /\ <<e, u>> # <<resp.req.email, resp.req.purpose>>
        /\ PendingKey(e, u) \in DOMAIN issued
        /\ PendingKey(resp.req.email, resp.req.purpose) \notin DOMAIN issued
        /\ issued[PendingKey(e, u)].code = resp.req.otp
        /\ cache_get(cache, PendingKey(e, u)) = resp.req.otp

\* C28: a verify_otp that fails writes nothing to the cache: the pending
\* OTP keeps its code and its expiry; and whatever has failed before, a
\* verify_otp passes the test exactly when it presents the code that is
\* pending for its email and purpose and has not expired.
C28_FailedVerifyChangesNothing ==
    [][/\ (resp'.req.op = "verify_otp" /\ resp'.status >= 400) => cache' = cache
       /\ (pc[1] = "idle" /\ (resp'.req.op = "verify_otp" \/ pc'[1] = "cache_delete")) =>
            LET req == IF pc'[1] = "cache_delete" THEN loc'[1] ELSE resp'.req
                k == PendingKey(req.email, req.purpose) IN
            pc'[1] = "cache_delete" <=>
                /\ k \in DOMAIN cache
                /\ cache[k].value = req.otp
                /\ cache[k].expiry > now]_vars

\* a verify_otp with a wrong code has failed after the clock moved, and the
\* OTP is pending with the code and the expiry its request_otp gave it
C28_OtpPendingAfterWrongCode ==
    /\ VerifyFailed
    /\ resp.attempt >= 1
    /\ LET k == PendingKey(resp.req.email, resp.req.purpose) IN
        /\ k \in DOMAIN issued
        /\ k \in DOMAIN cache
        /\ now > issued[k].at
        /\ cache[k].value = issued[k].code
        /\ cache[k].value # resp.req.otp
        /\ cache[k].expiry = issued[k].at + OTP_EXPIRE_SECONDS
        /\ cache[k].expiry > now

\* C29: request_otp stores the new OTP before it sends the message: when
\* the delivery has failed, the code of that call is in the cache in place
\* of whatever was pending for (email, purpose), with 300 s to live.
C29_FailedRequestLeavesNewCode ==
    (resp.req.op = "request_otp" /\ resp.mail = "failed") =>
        LET k == PendingKey(resp.req.email, resp.req.purpose) IN
        /\ k \in DOMAIN cache
        /\ cache[k] = [value |-> resp.req.otp, expiry |-> now + OTP_EXPIRE_SECONDS]

\* a request_otp whose delivery failed has replaced another code that was
\* pending
C29_PendingCodeReplacedByUndelivered ==
    /\ resp.req.op = "request_otp"
    /\ resp.mail = "failed"
    /\ LET k == PendingKey(resp.req.email, resp.req.purpose) IN
        /\ k \in DOMAIN issued
        /\ Truthy(issued[k].prevCode)
        /\ issued[k].prevCode # resp.req.otp
        /\ cache_get(cache, k) = resp.req.otp

\* C30: in every state that registration, resend-OTP and verify-email
\* reach, a user has an otp exactly when the user has an otp_created_at, so
\* the test of verify-email on the age of the OTP, which a missing
\* otp_created_at skips, applies to every stored OTP.
C30_OtpIffTimestamp ==
    \A e \in DOMAIN users :
        /\ Truthy(users[e].otp) <=> users[e].otp_created_at # NoTime
        /\ users[e].otp_created_at # NoTime =>
                users[e].otp_created_at >= 0 /\ users[e].otp_created_at <= now

\* a resend-OTP has put a new OTP with its timestamp on a user that
\* registered at an earlier instant
C30_ResentOtpHasTimestamp ==
    /\ resp.req.op = "resend_otp"
    /\ resp.status = 200
    /\ resp.req.email \in DOMAIN users
    /\ users[resp.req.email].otp = resp.req.otp
    /\ users[resp.req.email].otp_created_at = now
    /\ now > 0

\* C31: a resend-OTP for a verified user is refused and changes no user;
\* for an unverified user it writes the new code and the present time on
\* the user and nothing else, whatever becomes of the e-mail, so that only
\* the code stored last verifies, within 300 s of that time; resend-OTP
\* never changes is_verified, and no step sets an is_verified that is true
\* back to false.
C31_ResendOverwritesOtp ==
    [][/\ \A e \in DOMAIN users :
            users[e].is_verified => e \in DOMAIN users' /\ users'[e].is_verified
       /\ (pc[1] = "idle" /\ (resp'.req.op = "resend_otp" \/ pc'[1] = "resend_mail")) =>
            LET req == IF pc'[1] = "resend_mail" THEN loc'[1] ELSE resp'.req IN
            req.email \in DOMAIN users =>
                IF users[req.email].is_verified
                THEN /\ pc'[1] = "idle"
                     /\ resp'.status = 400
                     /\ users' = users
                ELSE /\ pc'[1] = "resend_mail"
                     /\ users' = [users EXCEPT ![req.email].otp = req.otp,
                                               ![req.email].otp_created_at = now]
       /\ pc[1] = "resend_mail" => users' = users
       /\ (resp'.req.op = "verify_email" /\ resp'.status = 200) =>
            /\ users[resp'.req.email].otp = resp'.req.otp
            /\ now - users[resp'.req.email].otp_created_at <= OTP_EXPIRE_SECONDS]_vars

\* the only user there is, registered when the clock stood at 0, has been
\* verified more than 300 s later: with the code and in the window of a
\* resend-OTP
C31_VerifiedInRestartedWindow ==
    /\ resp.req.op = "verify_email"
    /\ resp.status = 200
    /\ DOMAIN users = {resp.req.email}
    /\ users[resp.req.email].is_verified
    /\ now > OTP_EXPIRE_SECONDS

\* C32: the password-reset request and the password-reset-confirm of the
\* OTP-on-user-record flow write nothing: whatever they answer, 'Password
\* has been reset successfully.' included, every user keeps password, otp,
\* otp_created_at and is_verified, and no token is stored or taken out of
\* the cache.
C32_LegacyResetWritesNothing ==
    [][resp'.req.op \in {"password_reset", "password_reset_confirm"} =>
        /\ users' = users
        /\ cache' = cache
        /\ minted' = minted
        /\ nextTok' = nextTok]_vars

\* a password-reset-confirm has answered 'Password has been reset
\* successfully.' and a user still has another password than the new one
C32_ConfirmedResetLeftPassword ==
    /\ resp.req.op = "password_reset_confirm"
    /\ resp.status = 200
    /\ resp.detail = "Password has been reset successfully."
    /\ \E e \in DOMAIN users :
        /\ users[e].password # make_password(resp.req.password)
        /\ users[e].password = make_password("longsecret1")

====
